---------------------------- MODULE Spec2Model ----------------------------
(***************************************************************************)
(* A model of src/src/fsb.cpp, the converter of OptiFine/MCPatcher sky     *)
(* boxes to the fabricskyboxes layout: the transparency filter convert(),  *)
(* the cubemap slicer png(), the properties mapper prop() and the batch    *)
(* loop convert().                                                         *)
(*                                                                         *)
(* Buffers (std::vector<uint8_t>) are sequences of bytes; the code's       *)
(* 0-based index k is position k+1 of the sequence.  Strings are sequences *)
(* of one-character strings, so that erasing, trimming and parsing are     *)
(* modelled character by character.                                       *)
(***************************************************************************)
EXTENDS Integers, Sequences, FiniteSets, TLC

VARIABLES
    fsbtransparent, \* mcpppp::fsbtransparent
    \* ---- png() alone ----
    image,          \* the decoded source image [w, h, pix]
    saved,          \* the faces handed to lodepng::encode/save_file, in order
    pngpc,          \* "idle" | "decoded" | "done" | "threw"
    \* ---- the filter convert() alone ----
    tile,           \* a tile buffer given to convert() [w, h, pix]
    filtered,       \* the tile after convert()
    filtered2,      \* the tile after a second convert()
    fpc,            \* "idle" | "ready" | "once" | "twice" | "threw"
    \* ---- one line of a properties file ----
    line,           \* the line std::getline() left in temp
    pst,            \* the locals of prop() after the line
    lpc,            \* "idle" | "read" | "done" | "crashed"
    \* ---- convert() over a pack ----
    listing,        \* the entries of the sky/world0 directory, in iteration order
    fs,             \* the files of the pack, each a record [path, content]
    dirs,           \* the directories of the pack
    idx,            \* the number of entries convert() is done with
    cpc,            \* "idle" | "running" | "done" | "threw" | "crashed"
    log             \* what prop() did for each entry, in order

pngVars == <<image, saved, pngpc>>
filterVars == <<tile, filtered, filtered2, fpc>>
lineVars == <<line, pst, lpc>>
batchVars == <<listing, fs, dirs, idx, cpc, log>>
vars == <<fsbtransparent, pngVars, filterVars, lineVars, batchVars>>

(***************************************************************************)
(* Bounds of the model.                                                    *)
(***************************************************************************)
MaxW == 7           \* widest source image, in pixels
MaxH == 5           \* tallest source image, in pixels
MaxTileW == 3       \* widest tile given to the filter alone
MaxTileH == 3       \* tallest tile given to the filter alone
MaxTokLen == 5      \* longest fade-time token drawn character by character
MaxListLen == 4     \* longest weather/biomes value drawn character by character
MaxBatch == 2       \* most entries of the sky/world0 directory

(***************************************************************************)
(* Arithmetic of C++: / and % truncate toward zero.                        *)
(***************************************************************************)
Abs(n) == IF n < 0 THEN -n ELSE n
\* b > 0
TruncDiv(a, b) == LET q == a \div b IN IF a < 0 /\ q * b # a THEN q + 1 ELSE q
TruncMod(a, b) == a - b * TruncDiv(a, b)
Max2(a, b) == IF a >= b THEN a ELSE b
Min2(a, b) == IF a <= b THEN a ELSE b

(***************************************************************************)
(* rgb2hsv, hsv2rgb.  The code computes in double.  Every pixel the model  *)
(* feeds to the filter has channels that are multiples of 51 and are all   *)
(* 0 or one common value, so that r, g, b are whole numbers of 0..100,     *)
(* (g - b) / d is -1, 0 or 1, the hue a multiple of 60 and the saturation  *)
(* 0 or 100: every double operation is then exact and the integer          *)
(* arithmetic below is the code's.                                         *)
(***************************************************************************)
rgb2hsv(first, second, third) ==
    LET r == (first * 20) \div 51
        g == (second * 20) \div 51
        b == (third * 20) \div 51
        max == Max2(Max2(r, g), b)
        d == max - Min2(Min2(r, g), b)
        hue == IF d = 0 THEN 0
               ELSE IF max = r THEN (TruncDiv(60 * (g - b), d) + 360) % 360
               ELSE IF max = g THEN (TruncDiv(60 * (b - r), d) + 120) % 360
               ELSE (TruncDiv(60 * (r - g), d) + 240) % 360
        sat == IF max = 0 THEN 0 ELSE (d * 100) \div max
    IN  [first |-> hue, second |-> sat, third |-> max]

hsv2rgb(first, second, third) ==
    LET c == (second * third) \div 10000
        x == c * (1 - Abs(((first \div 60) % 2) - 1))
        m == (third \div 100) - c
    IN  IF first < 60 THEN [first |-> (c + m) * 255, second |-> (x + m) * 255, third |-> m * 255]
        ELSE IF first < 120 THEN [first |-> (x + m) * 255, second |-> (c + m) * 255, third |-> m * 255]
        ELSE IF first < 180 THEN [first |-> m * 255, second |-> (c + m) * 255, third |-> (x + m) * 255]
        ELSE IF first < 240 THEN [first |-> m * 255, second |-> (x + m) * 255, third |-> (c + m) * 255]
        ELSE IF first < 300 THEN [first |-> (x + m) * 255, second |-> m * 255, third |-> (c + m) * 255]
        ELSE [first |-> (c + m) * 255, second |-> m * 255, third |-> (x + m) * 255]

(***************************************************************************)
(* convert(image, w, h), the transparency filter.  w is the length of a    *)
(* row in bytes.  A buffer travels with the flag oob, set when an at()     *)
(* would throw std::out_of_range.                                          *)
(***************************************************************************)
InBuf(buf, k) == k >= 0 /\ k < Len(buf)

\* the test of line 129 with the comparison weakened
isOpaqueLoose(a) == a >= 254

\* line 129: "if completely opaque"
isOpaque(a) == a = 255

\* lines 131-141: the four bytes written back for an opaque pixel
convertPixel(r, g, b) ==
    LET hsv == rgb2hsv(r, g, b)
        alpha == (hsv.third * 51) \div 20
        rgb == hsv2rgb(hsv.first, hsv.second, 100)
    IN  <<rgb.first, rgb.second, rgb.third, alpha>>

\* lines 136-139: the four bytes of the pixel at base
setPixel(buf, base, px) ==
    [buf EXCEPT ![base + 1] = px[1], ![base + 2] = px[2], ![base + 3] = px[3],
                ![base + 4] = px[4]]

\* lines 128-141: the pixel at base, which is changed when it is opaque
convertAt(st, base) ==
    IF ~(InBuf(st.buf, base) /\ InBuf(st.buf, base + 3))
    THEN [st EXCEPT !.oob = TRUE]
    ELSE IF isOpaque(st.buf[base + 4])
    THEN [st EXCEPT !.buf = setPixel(@, base, convertPixel(st.buf[base + 1],
                                                           st.buf[base + 2],
                                                           st.buf[base + 3]))]
    ELSE st

RECURSIVE convertLoop(_, _, _, _, _)
convertLoop(st, w, h, i, j) ==
    IF st.oob \/ i >= w THEN st
    ELSE IF j >= h THEN convertLoop(st, w, h, i + 4, 0)
    ELSE convertLoop(convertAt(st, w * h - (j + 1) * w + i), w, h, i, j + 1)

convert(buf, w, h, transparent) ==
    IF ~transparent THEN [buf |-> buf, oob |-> FALSE]
    ELSE convertLoop([buf |-> buf, oob |-> FALSE], w, h, 0, 0)

(***************************************************************************)
(* png(): the slicer.  image is the decoded RGBA buffer of w x h pixels.   *)
(***************************************************************************)
\* lines 179-190 with the third bound dropped: the rest of a row goes to image3
columnOfNoCrop(i, w, outw) ==
    IF i % (w * 4) < outw THEN 1
    ELSE IF i % (w * 4) < 2 * outw THEN 2
    ELSE 3

\* lines 179-190 and 223-234: the buffer that byte i of the source goes to
columnOf(i, w, outw) ==
    IF i % (w * 4) < outw THEN 1
    ELSE IF i % (w * 4) < 2 * outw THEN 2
    ELSE IF i % (w * 4) < 3 * outw THEN 3
    ELSE 0

\* lines 177-191 and 221-235: one pass over the bytes from.. to-1 of the source
RECURSIVE sliceLoop(_, _, _, _, _, _)
sliceLoop(st, img, w, outw, i, to) ==
    IF st.oob \/ i >= to THEN st
    ELSE IF ~InBuf(img, i) THEN [st EXCEPT !.oob = TRUE]
    ELSE LET c == columnOf(i, w, outw)
         IN  sliceLoop(IF c = 1 THEN [st EXCEPT !.image1 = Append(@, img[i + 1])]
                       ELSE IF c = 2 THEN [st EXCEPT !.image2 = Append(@, img[i + 1])]
                       ELSE IF c = 3 THEN [st EXCEPT !.image3 = Append(@, img[i + 1])]
                       ELSE st,
                       img, w, outw, i + 1, to)

slice(img, w, outw, from, to) ==
    sliceLoop([image1 |-> <<>>, image2 |-> <<>>, image3 |-> <<>>, oob |-> FALSE],
              img, w, outw, from, to)

\* lines 198-207: top, read from image2 column by column, bottom row first
RECURSIVE topLoop(_, _, _, _, _)
topLoop(st, image2, outw, outh, n) ==
    \* n counts the iterations: i = 4 * (n \div outh), j = n % outh
    IF st.oob \/ outh = 0 \/ 4 * (n \div outh) >= outw THEN st
    ELSE LET i == 4 * (n \div outh)
             j == n % outh
             base == outw * outh - (j + 1) * outw + i
         IN  IF ~(InBuf(image2, base) /\ InBuf(image2, base + 3))
             THEN [st EXCEPT !.oob = TRUE]
             ELSE topLoop([st EXCEPT !.buf = @ \o <<image2[base + 1], image2[base + 2],
                                                     image2[base + 3], image2[base + 4]>>],
                          image2, outw, outh, n + 1)

rotateTop(image2, outw, outh) ==
    topLoop([buf |-> <<>>, oob |-> FALSE], image2, outw, outh, 0)

Face(name, buf, w, h) == [face |-> name, pix |-> buf, w |-> w, h |-> h]

\* lines 208-248: the six faces in the order they are encoded and saved
pngResult(a1, a2, top, a3, b1, b2, b3, oob, outw, outh) ==
    [oob |-> oob \/ a1.oob \/ a2.oob \/ top.oob \/ a3.oob \/ b1.oob \/ b2.oob \/ b3.oob,
     faces |-> << Face("bottom", a1.buf, outw \div 4, outh),
                  Face("top", top.buf, outh, outw \div 4),
                  Face("south", a3.buf, outw \div 4, outh),
                  Face("west", b1.buf, outw \div 4, outh),
                  Face("north", b2.buf, outw \div 4, outh),
                  Face("east", b3.buf, outw \div 4, outh) >>]

\* lines 192-207: the top row filtered, and the middle tile rotated into top
pngTop(a1, a2, a3, b1, b2, b3, oob, outw, outh) ==
    pngResult(a1, a2, rotateTop(a2.buf, outw, outh), a3, b1, b2, b3, oob, outw, outh)

\* lines 192-194 and 236-238: fsb::convert on each of the six buffers
pngConverted(row0, row1, outw, outh, transparent) ==
    pngTop(convert(row0.image1, outw, outh, transparent),
           convert(row0.image2, outw, outh, transparent),
           convert(row0.image3, outw, outh, transparent),
           convert(row1.image1, outw, outh, transparent),
           convert(row1.image2, outw, outh, transparent),
           convert(row1.image3, outw, outh, transparent),
           row0.oob \/ row1.oob, outw, outh)

\* lines 177-191 and 221-235: the two rows of the source
pngRows(pix, w, outw, outh, transparent) ==
    pngConverted(slice(pix, w, outw, 0, (w * 4) * outh),
                 slice(pix, w, outw, (w * 4) * outh, (w * 4) * 2 * outh),
                 outw, outh, transparent)

\* lines 168-248, outw = w / 3 * 4 bytes and outh = h / 2 rows to a tile
pngFaces(img, transparent) ==
    pngRows(img.pix, img.w, (img.w \div 3) * 4, img.h \div 2, transparent)

(***************************************************************************)
(* The images and tiles the model draws.  "index": byte k of the buffer is *)
(* k, so every byte tells where it came from.  "palette": the pixels cycle *)
(* through Palette, starting at an offset.                                 *)
(***************************************************************************)
Palette ==
    << <<0, 0, 0, 255>>,        \* opaque black
       <<255, 0, 0, 128>>,      \* half transparent red
       <<0, 102, 102, 255>>,    \* opaque dark cyan
       <<51, 51, 51, 254>>,     \* almost opaque grey
       <<255, 255, 0, 255>>,    \* opaque yellow
       <<0, 0, 0, 0>>,          \* transparent black
       <<153, 0, 153, 255>> >>  \* opaque purple

indexPix(w, h) == [k \in 1..(w * h * 4) |-> (k - 1) % 256]

palettePix(w, h, off) ==
    [k \in 1..(w * h * 4) |->
        Palette[((((k - 1) \div 4) + off) % Len(Palette)) + 1][((k - 1) % 4) + 1]]

Images ==
    { [w |-> w, h |-> h, pix |-> indexPix(w, h)] : w \in 1..MaxW, h \in 1..MaxH }
    \cup { [w |-> w, h |-> h, pix |-> palettePix(w, h, 0)] : w \in 1..MaxW, h \in 1..MaxH }

Tiles ==
    { [w |-> w, h |-> h, pix |-> palettePix(w, h, off)] :
        w \in 1..MaxTileW, h \in 1..MaxTileH, off \in 0..(Len(Palette) - 1) }

Idle == [w |-> 0, h |-> 0, pix |-> <<>>]

(***************************************************************************)
(* std::string, std::stoi, std::stod and std::stringstream, as prop()      *)
(* uses them.  A string is a sequence of characters.                       *)
(***************************************************************************)
IntMax == 2147483647    \* the largest int
IntMaxDiv10 == 214748364

\* lines 302 and 306: the characters trimmed around option and value
Blank(c) == c = " " \/ c = "\t"

\* std::isspace, as operator>> and strtol skip it
IsSpace(c) == c \in {" ", "\t", "\n", "\r", "\f"}

IsDigit(c) == c \in {"0", "1", "2", "3", "4", "5", "6", "7", "8", "9"}

DigitVal(c) ==
    CASE c = "0" -> 0 [] c = "1" -> 1 [] c = "2" -> 2 [] c = "3" -> 3 [] c = "4" -> 4
      [] c = "5" -> 5 [] c = "6" -> 6 [] c = "7" -> 7 [] c = "8" -> 8 [] c = "9" -> 9

\* the first position from i on that holds no white space
RECURSIVE skipSpace(_, _)
skipSpace(s, i) == IF i <= Len(s) /\ IsSpace(s[i]) THEN skipSpace(s, i + 1) ELSE i

\* the first position from i on that holds no digit
RECURSIVE digitsEnd(_, _)
digitsEnd(s, i) == IF i <= Len(s) /\ IsDigit(s[i]) THEN digitsEnd(s, i + 1) ELSE i

\* the first position from i on that holds white space
RECURSIVE wordEnd(_, _)
wordEnd(s, i) == IF i <= Len(s) /\ ~IsSpace(s[i]) THEN wordEnd(s, i + 1) ELSE i

\* the magnitude of the digits s[i..j-1]: it fits an int ("fit"), is exactly
\* 2^31 ("min") or is larger ("over")
RECURSIVE digitsMag(_, _, _, _)
digitsMag(s, i, j, acc) ==
    IF i >= j THEN acc
    ELSE LET d == DigitVal(s[i])
         IN  digitsMag(s, i + 1, j,
                 IF acc.k # "fit" THEN [v |-> 0, k |-> "over"]
                 ELSE IF acc.v < IntMaxDiv10 \/ (acc.v = IntMaxDiv10 /\ d <= 7)
                 THEN [v |-> acc.v * 10 + d, k |-> "fit"]
                 ELSE IF acc.v = IntMaxDiv10 /\ d = 8 THEN [v |-> 0, k |-> "min"]
                 ELSE [v |-> 0, k |-> "over"])

\* whether a "-" stands at i0, and the position after a sign at i0
signAt(s, i0) == i0 <= Len(s) /\ s[i0] = "-"
afterSign(s, i0) == IF i0 <= Len(s) /\ s[i0] \in {"+", "-"} THEN i0 + 1 ELSE i0

\* the int of a magnitude and a sign
stoiResult(neg, mag) ==
    IF mag.k = "over" \/ (mag.k = "min" /\ ~neg) THEN [status |-> "out_of_range", val |-> 0]
    ELSE IF mag.k = "min" THEN [status |-> "ok", val |-> (-IntMax) - 1]
    ELSE [status |-> "ok", val |-> IF neg THEN -mag.v ELSE mag.v]

\* the digits s[i1..i2-1]
stoiDigits(s, neg, i1, i2) ==
    IF i2 = i1 THEN [status |-> "invalid_argument", val |-> 0]
    ELSE stoiResult(neg, digitsMag(s, i1, i2, [v |-> 0, k |-> "fit"]))

stoiSigned(s, neg, i1) == stoiDigits(s, neg, i1, digitsEnd(s, i1))

\* std::stoi(s): white space, a sign, decimal digits; what follows is ignored
stoi(s) == stoiSigned(s, signAt(s, skipSpace(s, 1)), afterSign(s, skipSpace(s, 1)))

\* a small magnitude of the digits s[i..j-1], saturating at 9999
RECURSIVE smallMag(_, _, _, _)
smallMag(s, i, j, acc) ==
    IF i >= j THEN acc
    ELSE smallMag(s, i + 1, j, IF acc >= 1000 THEN 9999 ELSE acc * 10 + DigitVal(s[i]))

\* the first position from i on that holds no "0"
RECURSIVE zerosEnd(_, _, _)
zerosEnd(s, i, j) == IF i < j /\ s[i] = "0" THEN zerosEnd(s, i + 1, j) ELSE i

\* the value of a mantissa without its leading zeros: (-1)^neg * 0.digits *
\* 10^exp10 * times
stodResult(neg, sig, exp10) ==
    IF sig # <<>> /\ (exp10 > 308 \/ exp10 < -323)
    THEN [status |-> "out_of_range", val |-> <<>>]
    ELSE [status |-> "ok",
          val |-> [neg |-> neg, digits |-> sig,
                   exp10 |-> IF sig = <<>> THEN 0 ELSE exp10, times |-> 1]]

\* all are the digits of the mantissa, nInt of them before the point, lead of
\* them leading zeros
stodNormal(neg, all, nInt, exp, lead) ==
    stodResult(neg, SubSeq(all, lead + 1, Len(all)), exp + (nInt - lead))

stodMantissa(neg, all, nInt, exp) ==
    IF all = <<>> THEN [status |-> "invalid_argument", val |-> <<>>]
    ELSE stodNormal(neg, all, nInt, exp, zerosEnd(all, 1, Len(all) + 1) - 1)

\* the exponent whose digits are s[e1..e2-1], i3 being where "e" would stand
stodExponent(s, i3, e1, e2) ==
    IF e2 = e1 THEN 0
    ELSE IF s[i3 + 1] = "-" THEN -smallMag(s, e1, e2, 0)
    ELSE smallMag(s, e1, e2, 0)

\* the position where the digits of an exponent at i3 start
exponentStart(s, i3) ==
    IF i3 + 1 <= Len(s) /\ s[i3 + 1] \in {"+", "-"} THEN i3 + 2 ELSE i3 + 1

\* the exponent that follows the mantissa ending before i3
stodExp(s, i3) ==
    IF i3 <= Len(s) /\ s[i3] \in {"e", "E"}
    THEN stodExponent(s, i3, exponentStart(s, i3), digitsEnd(s, exponentStart(s, i3)))
    ELSE 0

\* the mantissa is s[i1..i2-1], and s[i2+1..i3-1] when a point stands at i2
stodFraction(s, neg, i1, i2, i3) ==
    stodMantissa(neg,
                 SubSeq(s, i1, i2 - 1) \o (IF i3 > i2 THEN SubSeq(s, i2 + 1, i3 - 1) ELSE <<>>),
                 i2 - i1, stodExp(s, i3))

stodPoint(s, neg, i1, i2) ==
    stodFraction(s, neg, i1, i2,
                 IF i2 <= Len(s) /\ s[i2] = "." THEN digitsEnd(s, i2 + 1) ELSE i2)

stodSigned(s, neg, i1) == stodPoint(s, neg, i1, digitsEnd(s, i1))

\* std::stod(s): white space, a sign, digits with at most one point, an exponent;
\* what follows is ignored.  Values spelled inf, nan or 0x... are not drawn.
stod(s) == stodSigned(s, signAt(s, skipSpace(s, 1)), afterSign(s, skipSpace(s, 1)))

\* a double written in the code
Double(n) == stod(n).val

\* stod(x) * 180 of line 378
Times180(v) == [v EXCEPT !.times = 180]

(***************************************************************************)
(* std::stringstream: the characters, the read position, eofbit, failbit.  *)
(***************************************************************************)
streamOf(value) == [buf |-> value, pos |-> 1, eof |-> FALSE, fail |-> FALSE]

\* operator>>(std::istream&, std::string&): str is left as it was when the
\* stream is not good or holds only white space
extract(ss, str) ==
    IF ss.eof \/ ss.fail THEN [ss |-> [ss EXCEPT !.fail = TRUE], str |-> str]
    ELSE LET p == skipSpace(ss.buf, ss.pos)
         IN  IF p > Len(ss.buf)
             THEN [ss |-> [ss EXCEPT !.pos = p, !.eof = TRUE, !.fail = TRUE], str |-> str]
             ELSE LET q == wordEnd(ss.buf, p)
                  IN  [ss |-> [ss EXCEPT !.pos = q, !.eof = q > Len(ss.buf)],
                       str |-> SubSeq(ss.buf, p, q - 1)]

\* the loop of lines 392-396 (weather) and 405-409 (biomes), each turn reading
\* at once and pushing what the variable holds
RECURSIVE extractAllLoop(_, _, _)
extractAllLoop(ss, str, list) ==
    IF ss.fail THEN list
    ELSE LET r == extract(ss, str)
         IN  extractAllLoop(r.ss, r.str, Append(list, r.str))

(***************************************************************************)
(* Paths, directories and files.  A path is a string; dirs holds the       *)
(* directories that exist (without a trailing "/"), fs the files, each a   *)
(* record [path, content].                                                 *)
(***************************************************************************)
\* the last position of s that holds c, 0 when there is none
RECURSIVE lastIndexOf(_, _, _)
lastIndexOf(s, c, i) == IF i = 0 \/ s[i] = c THEN i ELSE lastIndexOf(s, c, i - 1)

\* std::filesystem::path::filename, parent_path, extension, stem
filenameOf(p) == SubSeq(p, lastIndexOf(p, "/", Len(p)) + 1, Len(p))
parentOf(p) ==
    LET k == lastIndexOf(p, "/", Len(p)) IN IF k <= 1 THEN SubSeq(p, 1, k) ELSE SubSeq(p, 1, k - 1)
extensionOf(p) ==
    LET f == filenameOf(p)
        k == lastIndexOf(f, ".", Len(f))
    IN  IF k <= 1 \/ f = <<".", ".">> THEN <<>> ELSE SubSeq(f, k, Len(f))
stemOf(p) ==
    LET f == filenameOf(p) IN SubSeq(f, 1, Len(f) - Len(extensionOf(p)))

\* a directory name without its trailing "/"
RECURSIVE noTrailingSlash(_)
noTrailingSlash(p) ==
    IF Len(p) > 1 /\ p[Len(p)] = "/" THEN noTrailingSlash(SubSeq(p, 1, Len(p) - 1)) ELSE p

\* std::filesystem::create_directories(p): p and every directory above it
createDirectories(ds, p) ==
    LET q == noTrailingSlash(p)
    IN  ds \cup {q} \cup { SubSeq(q, 1, k - 1) : k \in { n \in 2..Len(q) : q[n] = "/" } }

fileExists(files, p) == \E f \in files : f.path = p

fileAt(files, p) == CHOOSE f \in files : f.path = p

writeFile(files, p, c) == { f \in files : f.path # p } \cup { [path |-> p, content |-> c] }

\* lodepng::save_file: fopen(filename, "wb") fails when the directory of the file
\* does not exist, and the error code is dropped at lines 474-479 and 509-514
canSave(ds, p) == parentOf(p) \in ds

\* one lodepng::save_file(buffer, p): the files after it and the record of the call
saveFile(st, p, c) ==
    IF canSave(st.dirs, p)
    THEN [st EXCEPT !.fs = writeFile(@, p, c),
                    !.saves = Append(@, [path |-> p, ok |-> TRUE, content |-> c])]
    ELSE [st EXCEPT !.saves = Append(@, [path |-> p, ok |-> FALSE, content |-> c])]

PngContent(w, h, pix) == [kind |-> "png", w |-> w, h |-> h, pix |-> pix]

\* lines 473 and 508: lodepng::encode(buffer, { 0, 0, 0, 1 }, 1, 1, state)
Placeholder == PngContent(1, 1, <<0, 0, 0, 1>>)

FsbNamespace == <<"f", "a", "b", "r", "i", "c", "s", "k", "y", "b", "o", "x", "e", "s", ":", "s", "k", "y">>
FsbSky == <<"/", "a", "s", "s", "e", "t", "s", "/", "f", "a", "b", "r", "i", "c", "s", "k", "y", "b", "o", "x", "e", "s", "/", "s", "k", "y">>
DotPng == <<".", "p", "n", "g">>

FaceSuffix(face) ==
    CASE face = "top" -> <<"_", "t", "o", "p", ".", "p", "n", "g">>
      [] face = "bottom" -> <<"_", "b", "o", "t", "t", "o", "m", ".", "p", "n", "g">>
      [] face = "north" -> <<"_", "n", "o", "r", "t", "h", ".", "p", "n", "g">>
      [] face = "south" -> <<"_", "s", "o", "u", "t", "h", ".", "p", "n", "g">>
      [] face = "west" -> <<"_", "w", "e", "s", "t", ".", "p", "n", "g">>
      [] face = "east" -> <<"_", "e", "a", "s", "t", ".", "p", "n", "g">>

\* the order of the save_file calls of lines 474-479 and 509-514
PlaceholderOrder == <<"top", "bottom", "north", "south", "west", "east">>

FaceNames == {"top", "bottom", "north", "south", "west", "east"}

(***************************************************************************)
(* png(path, output, entry) inside prop(): decode the image, create the    *)
(* output directory, save the six faces.                                   *)
(***************************************************************************)
RECURSIVE saveFaces(_, _, _, _)
saveFaces(st, prefix, faces, k) ==
    IF k > Len(faces) THEN st
    ELSE saveFaces(saveFile(st, prefix \o FaceSuffix(faces[k].face),
                            PngContent(faces[k].w, faces[k].h, faces[k].pix)),
                   prefix, faces, k + 1)

\* lines 208-248: the output directory is created and the faces are saved,
\* unless an at() of the slicer threw
pngSave(st, dir, prefix, r) ==
    IF r.oob THEN [st EXCEPT !.outcome = "threw", !.sliced = TRUE]
    ELSE saveFaces([st EXCEPT !.dirs = createDirectories(@, dir), !.sliced = TRUE],
                   prefix, r.faces, 1)

pngDecoded(st, path, output, filename, img, transparent) ==
    pngSave(st, path \o output, path \o output \o filename,
            pngFaces([w |-> img.w, h |-> img.h, pix |-> img.pix], transparent))

\* lines 156-249
png(st, path, output, imagePath, transparent) ==
    pngDecoded(st, path, output, stemOf(imagePath), fileAt(st.fs, imagePath).content,
               transparent)

\* lines 473-479 and 508-514: the six placeholder files
RECURSIVE savePlaceholders(_, _, _)
savePlaceholders(st, prefix, k) ==
    IF k > Len(PlaceholderOrder) THEN st
    ELSE savePlaceholders(saveFile(st, prefix \o FaceSuffix(PlaceholderOrder[k]), Placeholder),
                          prefix, k + 1)

(***************************************************************************)
(* prop(): one line of the properties file.  st holds the locals of        *)
(* prop(): the descriptor j, source, the four fade ticks, temp, and        *)
(*   status  "scan", "returned" (a caught std::invalid_argument),          *)
(*           "threw" (an exception that leaves prop()) or "crashed",       *)
(*   ub      whether an operation with undefined behaviour was executed.   *)
(***************************************************************************)
\* lines 261-279: the descriptor prop() starts from; a field not yet in the
\* document is the empty sequence
InitialDescriptor ==
    [ schemaVersion |-> 2,
      type |-> <<"s", "q", "u", "a", "r", "e", "-", "t", "e", "x", "t", "u", "r", "e", "d">>,
      worlds |-> << <<"m", "i", "n", "e", "c", "r", "a", "f", "t", ":", "o", "v", "e", "r", "w", "o", "r", "l", "d">> >>,
      blend |-> TRUE,
      blendType |-> <<"a", "d", "d">>,
      axis |-> <<Double(<<"0", ".", "0">>), Double(<<"1", "8", "0", ".", "0">>), Double(<<"0", ".", "0">>)>>,
      sunSkyTint |-> FALSE,
      shouldRotate |-> <<>>,
      rotationSpeed |-> <<>>,
      static |-> <<>>,
      weather |-> <<>>,
      biomes |-> <<>>,
      heights |-> <<>>,
      fade |-> [startFadeIn |-> <<>>, endFadeIn |-> <<>>,
                startFadeOut |-> <<>>, endFadeOut |-> <<>>],
      textures |-> <<>> ]

\* lines 254-260
InitialLocals(name) ==
    [ j |-> InitialDescriptor, source |-> name,
      startfadein |-> -1, endfadein |-> -1, startfadeout |-> -1, endfadeout |-> -1,
      temp |-> <<>>, status |-> "scan", ub |-> FALSE ]

\* lines 286-301: option is what precedes the first "=", value what follows it
\* with every further "=" left out
RECURSIVE splitLine(_, _, _, _, _)
splitLine(temp, i, isvalue, option, value) ==
    IF i > Len(temp) THEN [option |-> option, value |-> value]
    ELSE IF temp[i] = "=" THEN splitLine(temp, i + 1, TRUE, option, value)
    ELSE IF ~isvalue THEN splitLine(temp, i + 1, isvalue, Append(option, temp[i]), value)
    ELSE splitLine(temp, i + 1, isvalue, option, Append(value, temp[i]))

\* lines 302-305; back() of an empty string is undefined, see propLine
RECURSIVE trimBack(_)
trimBack(s) == IF s # <<>> /\ Blank(s[Len(s)]) THEN trimBack(SubSeq(s, 1, Len(s) - 1)) ELSE s

\* lines 306-309; front() of an empty string is undefined, see propLine
RECURSIVE trimFront(_)
trimFront(s) == IF s # <<>> /\ Blank(s[1]) THEN trimFront(Tail(s)) ELSE s

\* mcpppp::findreplace(temp, "\\:", ":"): every "\:" becomes ":"
RECURSIVE findreplace(_)
findreplace(s) ==
    IF Len(s) < 2 THEN s
    ELSE IF s[1] = "\\" /\ s[2] = ":" THEN <<":">> \o findreplace(SubSeq(s, 3, Len(s)))
    ELSE <<s[1]>> \o findreplace(Tail(s))

\* lines 321-332: the string given to stoi: "\:" replaced, every ":" erased,
\* "0" appended
fadeDigits(value) == Append(SelectSeq(findreplace(value), LAMBDA c : c # ":"), "0")

\* round((x) / 3.0 * 5) for -1000 < x < 1000: x * 5 / 3 is never half-way
\* between two integers, so rounding is to the nearest one
roundFiveThirds(x) ==
    IF x >= 0 THEN (10 * x + 3) \div 6 ELSE -((10 * (-x) + 3) \div 6)

\* a + b in int: whether it overflows, and the value a two's complement
\* addition leaves
addInt(a, b) ==
    IF b > 0 /\ a > IntMax - b
    THEN [overflow |-> TRUE, val |-> ((a - IntMax) - 1) + ((b - IntMax) - 1)]
    ELSE IF b < 0 /\ a < ((-IntMax) - 1) - b
    THEN [overflow |-> TRUE, val |-> ((a + IntMax) + 1) + ((b + IntMax) + 1)]
    ELSE [overflow |-> FALSE, val |-> a + b]

\* line 337: tempi = (tempi + 18000) % 24000
shiftTicks(t) ==
    LET s == addInt(t, 18000)
    IN  [overflow |-> s.overflow, val |-> TruncMod(s.val, 24000)]

\* lines 336-337: the tick of the parsed integer
fadeShift(a) ==
    [overflow |-> a.overflow \/ shiftTicks(a.val).overflow, val |-> shiftTicks(a.val).val]

fadeTicks(tempi) ==
    fadeShift(addInt(TruncDiv(tempi, 1000) * 1000, roundFiveThirds(TruncMod(tempi, 1000))))

FadeOptions == { <<"s", "t", "a", "r", "t", "F", "a", "d", "e", "I", "n">>, <<"e", "n", "d", "F", "a", "d", "e", "I", "n">>, <<"s", "t", "a", "r", "t", "F", "a", "d", "e", "O", "u", "t">>, <<"e", "n", "d", "F", "a", "d", "e", "O", "u", "t">> }

\* lines 338-347: the tick goes to the local and to the descriptor
fadeStore(st, option, t) ==
    IF option = <<"s", "t", "a", "r", "t", "F", "a", "d", "e", "I", "n">>
    THEN [st EXCEPT !.startfadein = t.val, !.j.fade.startFadeIn = <<t.val>>,
                    !.ub = @ \/ t.overflow]
    ELSE IF option = <<"s", "t", "a", "r", "t", "F", "a", "d", "e", "O", "u", "t">>
    THEN [st EXCEPT !.startfadeout = t.val, !.j.fade.startFadeOut = <<t.val>>,
                    !.ub = @ \/ t.overflow]
    ELSE IF option = <<"e", "n", "d", "F", "a", "d", "e", "I", "n">>
    THEN [st EXCEPT !.endfadein = t.val, !.j.fade.endFadeIn = <<t.val>>,
                    !.ub = @ \/ t.overflow]
    ELSE [st EXCEPT !.endfadeout = t.val, !.j.fade.endFadeOut = <<t.val>>,
                    !.ub = @ \/ t.overflow]

\* lines 333-349: r is what stoi(temp) gave
fadeParsed(st, option, r) ==
    IF r.status = "invalid_argument" THEN [st EXCEPT !.status = "returned"]
    ELSE IF r.status = "out_of_range" THEN [st EXCEPT !.status = "threw"]
    ELSE fadeStore(st, option, fadeTicks(r.val))

\* lines 319-349
fadeLine(st, option, value) ==
    fadeParsed([st EXCEPT !.temp = fadeDigits(value)], option, stoi(fadeDigits(value)))

\* lines 360-368: r is what stod(value) gave
speedParsed(st, r) ==
    IF r.status = "invalid_argument" THEN [st EXCEPT !.status = "returned"]
    ELSE IF r.status = "out_of_range" THEN [st EXCEPT !.status = "threw"]
    ELSE [st EXCEPT !.j.rotationSpeed = <<r.val>>]

\* lines 358-369
speedLine(st, value) == speedParsed(st, stod(value))

\* lines 376-384: the first stod that throws decides
axisStore(st, x, y, z) ==
    IF x.status = "ok" /\ y.status = "ok" /\ z.status = "ok"
    THEN [st EXCEPT !.j.axis = <<Times180(x.val), Times180(y.val), Times180(z.val)>>]
    ELSE IF (IF x.status # "ok" THEN x.status
             ELSE IF y.status # "ok" THEN y.status ELSE z.status) = "invalid_argument"
    THEN [st EXCEPT !.status = "returned"]
    ELSE [st EXCEPT !.status = "threw"]

\* line 375: axis >> x >> y >> z
axisZ(st, rx, ry, rz) == axisStore(st, stod(rx.str), stod(ry.str), stod(rz.str))
axisY(st, rx, ry) == axisZ(st, rx, ry, extract(ry.ss, <<>>))
axisX(st, rx) == axisY(st, rx, extract(rx.ss, <<>>))

\* lines 370-385
axisLine(st, value) == axisX(st, extract(streamOf(value), <<>>))

\* lines 388-396 and 401-409: the list stored for weather and for biomes
listOf(value) == extractAllLoop(streamOf(value), <<>>, <<>>)

\* lines 430-438: lo and hi are what stod gave for the two parts
heightPair(acc, lo, hi) ==
    IF lo.status = "ok" /\ hi.status = "ok"
    THEN [acc EXCEPT !.list = Append(@, [min |-> lo.val, max |-> hi.val])]
    ELSE IF (IF lo.status # "ok" THEN lo.status ELSE hi.status) = "invalid_argument"
    THEN [acc EXCEPT !.status = "returned"]
    ELSE [acc EXCEPT !.status = "threw"]

\* lines 422-439: one token of heights; each "-" found cuts the token in two,
\* and the scan goes on in what follows the "-"
RECURSIVE heightToken(_, _, _)
heightToken(acc, height, i) ==
    \* i is the code's index, from 0
    IF acc.status # "scan" \/ i >= Len(height) THEN acc
    ELSE IF height[i + 1] # "-" THEN heightToken(acc, height, i + 1)
    ELSE heightToken(heightPair(acc, stod(SubSeq(height, 1, i)),
                                stod(SubSeq(height, i + 2, Len(height)))),
                     SubSeq(height, i + 2, Len(height)), i + 1)

\* lines 418-440; each turn clears height and reads it at once
RECURSIVE heightsLoop(_)
heightsLoop(acc) ==
    IF acc.status # "scan" \/ acc.ss.fail THEN acc
    ELSE heightsLoop(heightToken([acc EXCEPT !.ss = extract(acc.ss, <<>>).ss],
                                 extract(acc.ss, <<>>).str, 0))

heightsStore(st, r) ==
    IF r.status = "scan" THEN [st EXCEPT !.j.heights = <<r.list>>]
    ELSE [st EXCEPT !.status = r.status]

\* lines 412-442
heightsLine(st, value) ==
    heightsStore(st, heightsLoop([status |-> "scan", list |-> <<>>, ss |-> streamOf(value)]))

\* line 317 without the erase
stripSourceNone(value) == value

\* lines 316-317: the last four characters are erased.  With fewer than four the
\* erase starts before begin(), which writes outside the string: sourceLine
\* ends such a run as "crashed".
stripSource(value) == SubSeq(value, 1, Len(value) - 4)

\* lines 314-318
sourceLine(st, value) ==
    IF Len(value) < 4 THEN [st EXCEPT !.status = "crashed", !.ub = TRUE]
    ELSE [st EXCEPT !.source = stripSource(value)]

\* lines 314-411: the chain of else-ifs
optionLine(st, option, value) ==
    IF option = <<"s", "o", "u", "r", "c", "e">> THEN sourceLine(st, value)
    ELSE IF option \in FadeOptions THEN fadeLine(st, option, value)
    ELSE IF option = <<"b", "l", "e", "n", "d">> THEN [st EXCEPT !.j.blendType = value]
    ELSE IF option = <<"r", "o", "t", "a", "t", "e">> THEN [st EXCEPT !.j.shouldRotate = <<value = <<"t", "r", "u", "e">>>>]
    ELSE IF option = <<"s", "p", "e", "e", "d">> THEN speedLine(st, value)
    ELSE IF option = <<"a", "x", "i", "s">> THEN axisLine(st, value)
    ELSE IF option = <<"w", "e", "a", "t", "h", "e", "r">> THEN [st EXCEPT !.j.weather = <<listOf(value)>>]
    ELSE IF option = <<"b", "i", "o", "m", "e", "s">> THEN [st EXCEPT !.j.biomes = <<listOf(value)>>]
    ELSE st

\* lines 412-442: the separate if for heights
heightsOption(st, option, value) ==
    IF st.status = "scan" /\ option = <<"h", "e", "i", "g", "h", "t", "s">> THEN heightsLine(st, value) ELSE st

\* lines 302-313.  option.back() on an empty option and value.front() on an
\* empty value are undefined: ub records them, and the result is that of a
\* build whose read delivers a character that is neither ' ' nor '\t'.
trimmedLine(st, option, value) ==
    IF st.temp = <<>> THEN [st EXCEPT !.ub = TRUE]    \* lines 310-313: continue
    ELSE heightsOption(optionLine([st EXCEPT !.ub = @ \/ option = <<>> \/ value = <<>>],
                                  option, value),
                       option, value)

optionValue(st, ov) == trimmedLine(st, trimBack(ov.option), trimFront(ov.value))

\* lines 284-446: the body of the loop, temp being what getline left
propLine(st) == optionValue(st, splitLine(st.temp, 1, FALSE, <<>>, <<>>))
(***************************************************************************)
(* prop(path, entry): the whole function.                                  *)
(***************************************************************************)
\* lines 280-283 and 447: the loop over the lines.  lines are the lines of the
\* file, eol whether the last one ends with a newline.  The read that fails
\* leaves temp empty after a final newline (and for an empty file); without a
\* final newline it leaves temp as the last turn left it, and the body runs on
\* it once more.
RECURSIVE scanLines(_, _, _, _)
scanLines(st, lines, k, eol) ==
    IF st.status # "scan" THEN st
    ELSE IF k <= Len(lines) THEN scanLines(propLine([st EXCEPT !.temp = lines[k]]), lines, k + 1, eol)
    ELSE propLine(IF eol \/ lines = <<>> THEN [st EXCEPT !.temp = <<>>] ELSE st)

\* lines 449-453
finishDescriptor(st) ==
    IF st.startfadeout = -1
    THEN [st EXCEPT !.j.static = <<1, 1, 1>>,
                    !.j.fade.startFadeOut =
                        << TruncMod(st.endfadeout - st.endfadein + st.startfadein + 24000,
                                    24000) >>]
    ELSE [st EXCEPT !.j.static = <<1, 1, 1>>]

\* what prop() has done besides building j
NoEffects(files, ds) ==
    [ fs |-> files, dirs |-> ds, saves |-> <<>>, sliced |-> FALSE, lookup |-> <<>>,
      outcome |-> "scan", id |-> <<>> ]

\* lines 470-480: the image is sliced when it exists; six placeholders are
\* saved when it does not
sliceOrPlaceholders(eff, path, output, imagePath, prefix, transparent) ==
    IF fileExists(eff.fs, imagePath)
    THEN png(eff, path, output, imagePath, transparent)
    ELSE savePlaceholders(eff, prefix, 1)

\* lines 461-469: parent is the directory of the properties file
relativeImage(eff, rel, parent, path, transparent) ==
    sliceOrPlaceholders([eff EXCEPT !.lookup = parent \o rel \o DotPng,
                                    !.id = FsbNamespace \o rel],
                        path, Append(FsbSky, "/"), parent \o rel \o DotPng,
                        path \o FsbSky \o rel, transparent)

\* lines 459-462: one "/" at the end is erased
dropSlash(temp) ==
    IF temp # <<>> /\ temp[Len(temp)] = "/" THEN SubSeq(temp, 1, Len(temp) - 1) ELSE temp

\* lines 455-483: a source that starts with "./"
relativeSource(eff, source, path, entryPath, transparent) ==
    relativeImage(eff, Tail(source), dropSlash(parentOf(entryPath)), path, transparent)

\* lines 497-515
rootedImage(eff, source, sourcefolder, sourcefile, path, transparent) ==
    sliceOrPlaceholders(
        [eff EXCEPT !.lookup = path \o (IF source[1] = "/" THEN <<>> ELSE <<"/">>)
                                    \o source \o DotPng,
                    !.id = FsbNamespace \o sourcefolder \o sourcefile],
        path, FsbSky \o sourcefolder,
        path \o (IF source[1] = "/" THEN <<>> ELSE <<"/">>) \o source \o DotPng,
        path \o FsbSky \o sourcefolder \o sourcefile, transparent)

\* lines 487-496: the source is cut after its last "/", at position k
rootedAt(eff, source, k, path, transparent) ==
    IF k = 0 THEN [eff EXCEPT !.outcome = "threw"]
    ELSE rootedImage(eff, source,
                     IF source[1] # "/" THEN <<"/">> \o SubSeq(source, 1, k)
                     ELSE SubSeq(source, 1, k),
                     SubSeq(source, k + 1, Len(source)), path, transparent)

\* lines 485-519: a source rooted at the pack
rootedSource(eff, source, path, transparent) ==
    rootedAt(eff, source, lastIndexOf(source, "/", Len(source)), path, transparent)

\* lines 454-519; source.at(0) and source.at(1) throw std::out_of_range
resolveSource(eff, source, path, entryPath, transparent) ==
    IF Len(source) = 0 THEN [eff EXCEPT !.outcome = "threw"]
    ELSE IF source[1] = "." /\ Len(source) < 2 THEN [eff EXCEPT !.outcome = "threw"]
    ELSE IF source[1] = "." /\ source[2] = "/"
    THEN relativeSource(eff, source, path, entryPath, transparent)
    ELSE rootedSource(eff, source, path, transparent)

\* lines 520-525
texturesOf(id) == [face \in FaceNames |-> id \o FaceSuffix(face)]

\* lines 526-532
writeDescriptor(eff, j, path, name) ==
    [eff EXCEPT !.dirs = IF (path \o FsbSky) \in @ THEN @
                         ELSE createDirectories(@, path \o FsbSky),
                !.fs = writeFile(@, path \o FsbSky \o <<"/">> \o name \o <<".", "j", "s", "o", "n">>,
                                 [kind |-> "json", j |-> j]),
                !.outcome = "written"]

\* what prop() hands back: outcome "written", "returned", "threw" or "crashed";
\* ub; the descriptor j; the files and directories after the call; the
\* save_file calls; whether png() was called; the image path looked up
propResult(eff, ub, j) ==
    [ outcome |-> eff.outcome, ub |-> ub, j |-> j, fs |-> eff.fs, dirs |-> eff.dirs,
      saves |-> eff.saves, sliced |-> eff.sliced, lookup |-> eff.lookup ]

\* lines 520-532: the textures and the descriptor file
propWrite(eff, st, path, name) ==
    IF eff.outcome = "threw" THEN propResult(eff, st.ub, st.j)
    ELSE propResult(writeDescriptor(eff, [st.j EXCEPT !.textures = texturesOf(eff.id)],
                                    path, name),
                    st.ub, [st.j EXCEPT !.textures = texturesOf(eff.id)])

\* lines 449-519: after the loop over the lines
propScanned(scanned, path, entry, transparent, files, ds) ==
    IF scanned.status # "scan"
    THEN propResult([NoEffects(files, ds) EXCEPT !.outcome = scanned.status],
                    scanned.ub, scanned.j)
    ELSE propWrite(resolveSource(NoEffects(files, ds), finishDescriptor(scanned).source,
                                 path, entry.path, transparent),
                   finishDescriptor(scanned), path, stemOf(entry.path))

\* lines 252-533
prop(path, entry, transparent, files, ds) ==
    propScanned(scanLines(InitialLocals(stemOf(entry.path)), entry.lines, 1, entry.eol),
                path, entry, transparent, files, ds)
(***************************************************************************)
(* The parts of the state a specification does not use stay idle.          *)
(***************************************************************************)
PngIdle == image = Idle /\ saved = <<>> /\ pngpc = "idle"
FilterIdle == tile = Idle /\ filtered = <<>> /\ filtered2 = <<>> /\ fpc = "idle"
LineIdle == line = <<>> /\ pst = <<>> /\ lpc = "idle"
BatchIdle ==
    /\ listing = <<>> /\ fs = {} /\ dirs = {} /\ idx = 0 /\ cpc = "idle" /\ log = <<>>

(***************************************************************************)
(* The slicer alone: png() applied to a decoded image.                     *)
(***************************************************************************)
InitPng ==
    /\ image \in Images
    /\ fsbtransparent \in BOOLEAN
    /\ saved = <<>>
    /\ pngpc = "decoded"
    /\ FilterIdle /\ LineIdle /\ BatchIdle

Png ==
    /\ pngpc = "decoded"
    /\ LET r == pngFaces(image, fsbtransparent)
       IN  IF r.oob THEN saved' = <<>> /\ pngpc' = "threw"
           ELSE saved' = r.faces /\ pngpc' = "done"
    /\ UNCHANGED <<image, fsbtransparent, filterVars, lineVars, batchVars>>

NextPng == Png

SpecPng == InitPng /\ [][NextPng]_vars

(***************************************************************************)
(* The filter alone: convert() applied to a tile, then to its own result.  *)
(***************************************************************************)
InitFilter ==
    /\ tile \in Tiles
    /\ fsbtransparent \in BOOLEAN
    /\ filtered = <<>> /\ filtered2 = <<>>
    /\ fpc = "ready"
    /\ PngIdle /\ LineIdle /\ BatchIdle

FilterOnce ==
    /\ fpc = "ready"
    /\ LET r == convert(tile.pix, tile.w * 4, tile.h, fsbtransparent)
       IN  IF r.oob THEN filtered' = <<>> /\ fpc' = "threw"
           ELSE filtered' = r.buf /\ fpc' = "once"
    /\ UNCHANGED <<tile, fsbtransparent, filtered2, pngVars, lineVars, batchVars>>

FilterAgain ==
    /\ fpc = "once"
    /\ LET r == convert(filtered, tile.w * 4, tile.h, fsbtransparent)
       IN  IF r.oob THEN filtered2' = <<>> /\ fpc' = "threw"
           ELSE filtered2' = r.buf /\ fpc' = "twice"
    /\ UNCHANGED <<tile, fsbtransparent, filtered, pngVars, lineVars, batchVars>>

NextFilter == FilterOnce \/ FilterAgain

SpecFilter == InitFilter /\ [][NextFilter]_vars

(***************************************************************************)
(* One line of a properties file given to the body of prop()'s loop.       *)
(***************************************************************************)
ListOptions == { <<"w", "e", "a", "t", "h", "e", "r">>, <<"b", "i", "o", "m", "e", "s">> }

\* the characters of the fade values drawn
TokChars == {"0", "6", "9", ":", "\\", "-"}

\* fade values beyond MaxTokLen: an int that overflows at line 336, and digits
\* that are no int
LongTokens == { <<"2", "1", "4", "7", "4", "8", "3", "6", "4">>, <<"9", "9", "9", "9", "9", "9", "9", "9", "9", "9", "9">> }

Tokens == UNION { [1..n -> TokChars] : n \in 0..MaxTokLen } \cup LongTokens

\* the characters of the weather and biomes values drawn
ListChars == {"a", "b", " ", "\t"}

ListValues == UNION { [1..n -> ListChars] : n \in 0..MaxListLen }

Lines ==
    { [option |-> o, value |-> v] : o \in FadeOptions, v \in Tokens }
    \cup { [option |-> o, value |-> v] : o \in ListOptions, v \in ListValues }

\* the text of the line, as getline delivers it
textOf(l) == l.option \o <<"=">> \o l.value

InitLine ==
    /\ line \in Lines
    /\ pst = InitialLocals(<<"s", "k", "y", "1">>)
    /\ lpc = "read"
    /\ fsbtransparent = FALSE
    /\ PngIdle /\ FilterIdle /\ BatchIdle

\* after undefined behaviour the run goes on as computed or the process ends
LineDone(r, crash) ==
    /\ pst' = r
    /\ lpc' = IF crash \/ r.status = "crashed" THEN "crashed" ELSE "done"

LineRead(r) == \E crash \in (IF r.ub THEN BOOLEAN ELSE {FALSE}) : LineDone(r, crash)

\* lines 284-446, one turn of the loop
PropLine ==
    /\ lpc = "read"
    /\ LineRead(propLine([pst EXCEPT !.temp = textOf(line)]))
    /\ UNCHANGED <<line, fsbtransparent, pngVars, filterVars, batchVars>>

NextLine == PropLine

SpecLine == InitLine /\ [][NextLine]_vars

(***************************************************************************)
(* The pack convert() is given.  The sky/world0 directory holds some of    *)
(* the entries below, in any order (std::filesystem::directory_iterator    *)
(* promises none).                                                          *)
(***************************************************************************)
PackPath == <<"/", "p">>

\* line 569: the directory convert() iterates
SkyDir(optifine) ==
    PackPath \o <<"/", "a", "s", "s", "e", "t", "s", "/", "m", "i", "n", "e", "c", "r", "a", "f", "t", "/">>
             \o (IF optifine THEN <<"o", "p", "t", "i", "f", "i", "n", "e">> ELSE <<"m", "c", "p", "a", "t", "c", "h", "e", "r">>) \o <<"/", "s", "k", "y", "/", "w", "o", "r", "l", "d", "0">>

File(name, lines, eol) == [file |-> name, lines |-> lines, eol |-> eol]

\* a relative source with its extension, a fade time and a blend
FooProperties ==
    File(<<"f", "o", "o", ".", "p", "r", "o", "p", "e", "r", "t", "i", "e", "s">>,
         << <<"s", "o", "u", "r", "c", "e", "=", ".", "/", "f", "o", "o", ".", "p", "n", "g">>, <<"s", "t", "a", "r", "t", "F", "a", "d", "e", "I", "n", "=", "6", ":", "0", ":", "0">>, <<"b", "l", "e", "n", "d", "=", "a", "d", "d">> >>, TRUE)

\* the same with the source written without an extension
ExProperties ==
    File(<<"e", "x", ".", "p", "r", "o", "p", "e", "r", "t", "i", "e", "s">>,
         << <<"s", "o", "u", "r", "c", "e", "=", ".", "/", "f", "o", "o">>, <<"s", "t", "a", "r", "t", "F", "a", "d", "e", "I", "n", "=", "6", ":", "0", ":", "0">>, <<"b", "l", "e", "n", "d", "=", "a", "d", "d">> >>, TRUE)

\* a relative source in a folder below the properties file; no final newline
SubProperties ==
    File(<<"s", "u", "b", ".", "p", "r", "o", "p", "e", "r", "t", "i", "e", "s">>,
         << <<"s", "o", "u", "r", "c", "e", " ", "=", " ", ".", "/", "s", "u", "b", "/", "f", "o", "o", ".", "p", "n", "g">>, <<"w", "e", "a", "t", "h", "e", "r", "=", "r", "a", "i", "n", " ", "t", "h", "u", "n", "d", "e", "r">> >>, FALSE)

\* a source rooted at the pack
AbsProperties ==
    File(<<"a", "b", "s", ".", "p", "r", "o", "p", "e", "r", "t", "i", "e", "s">>,
         << <<"s", "o", "u", "r", "c", "e", "=", "p", "k", "/", "c", ".", "p", "n", "g">>, <<"r", "o", "t", "a", "t", "e", "=", "t", "r", "u", "e">>, <<"s", "p", "e", "e", "d", "=", "1", ".", "5">>, <<"a", "x", "i", "s", "=", "0", " ", "1", " ", "0">>,
            <<"h", "e", "i", "g", "h", "t", "s", "=", "1", "-", "5", " ", "6", "4", "-", "1", "2", "8">>, <<"e", "n", "d", "F", "a", "d", "e", "I", "n", "=", "7", ":", "3", "0">> >>, TRUE)

\* a speed that is no number
BadProperties ==
    File(<<"b", "a", "d", ".", "p", "r", "o", "p", "e", "r", "t", "i", "e", "s">>, << <<"s", "o", "u", "r", "c", "e", "=", ".", "/", "f", "o", "o", ".", "p", "n", "g">>, <<"s", "p", "e", "e", "d", "=", "n", "o", "t", "a", "n", "u", "m", "b", "e", "r">> >>, TRUE)

\* a fade time that is no int
BigProperties ==
    File(<<"b", "i", "g", ".", "p", "r", "o", "p", "e", "r", "t", "i", "e", "s">>, << <<"s", "t", "a", "r", "t", "F", "a", "d", "e", "I", "n", "=", "9", "9", "9", "9", "9", "9", "9", "9", "9", "9", "9">>, <<"s", "o", "u", "r", "c", "e", "=", ".", "/", "f", "o", "o", ".", "p", "n", "g">> >>, TRUE)

\* a speed that starts like a number
LaxProperties ==
    File(<<"l", "a", "x", ".", "p", "r", "o", "p", "e", "r", "t", "i", "e", "s">>, << <<"s", "o", "u", "r", "c", "e", "=", ".", "/", "f", "o", "o", ".", "p", "n", "g">>, <<"s", "p", "e", "e", "d", "=", "1", ".", "5", "a", "b", "c">> >>, FALSE)

\* no source line: the source is the stem of the file
NosrcProperties ==
    File(<<"n", "o", "s", "r", "c", ".", "p", "r", "o", "p", "e", "r", "t", "i", "e", "s">>, << <<"b", "l", "e", "n", "d", "=", "a", "d", "d">> >>, TRUE)

\* the image beside the properties files
FooPng == File(<<"f", "o", "o", ".", "p", "n", "g">>, <<>>, FALSE)

Catalogue ==
    { FooProperties, ExProperties, SubProperties, AbsProperties, BadProperties,
      BigProperties, LaxProperties, NosrcProperties, FooPng }

\* the directories of up to MaxBatch entries, each in every order
Listings ==
    { s \in UNION { [1..n -> Catalogue] : n \in 0..MaxBatch } :
        \A a, b \in DOMAIN s : a # b => s[a] # s[b] }

\* the image every source image file of the model holds
SampleImage == PngContent(3, 2, indexPix(3, 2))

SubFooPng(optifine) == SkyDir(optifine) \o <<"/", "s", "u", "b", "/", "f", "o", "o", ".", "p", "n", "g">>
PkCPng == PackPath \o <<"/", "p", "k", "/", "c", ".", "p", "n", "g">>

Init ==
    /\ fsbtransparent \in BOOLEAN
    /\ \E optifine \in BOOLEAN, es \in Listings, sub \in BOOLEAN, pk \in BOOLEAN :
          LET dir == SkyDir(optifine)
              paths == { dir \o <<"/">> \o es[k].file : k \in { n \in DOMAIN es : es[n] = FooPng } }
                       \cup (IF sub THEN {SubFooPng(optifine)} ELSE {})
                       \cup (IF pk THEN {PkCPng} ELSE {})
          IN  /\ listing = [k \in DOMAIN es |->
                               [path |-> dir \o <<"/">> \o es[k].file,
                                lines |-> es[k].lines, eol |-> es[k].eol]]
              /\ fs = { [path |-> p, content |-> SampleImage] : p \in paths }
              /\ dirs = UNION { createDirectories({}, parentOf(p)) : p \in paths \cup {dir \o <<"/", "x">>} }
    /\ idx = 0
    /\ cpc = "running"
    /\ log = <<>>
    /\ PngIdle /\ FilterIdle /\ LineIdle

LogEntry(kind, r) ==
    [ kind |-> kind, outcome |-> r.outcome, ub |-> r.ub, j |-> r.j, saves |-> r.saves,
      sliced |-> r.sliced, lookup |-> r.lookup ]

\* prop() has given r: an exception of prop() leaves convert(); after
\* undefined behaviour the run goes on as computed or the process ends
PropDone(r, crash) ==
    IF crash \/ r.outcome = "crashed"
    THEN /\ cpc' = "crashed"
         /\ log' = Append(log, LogEntry("prop", [r EXCEPT !.outcome = "crashed",
                                                           !.saves = <<>>,
                                                           !.sliced = FALSE,
                                                           !.lookup = <<>>]))
         /\ UNCHANGED <<fs, dirs>>
    ELSE /\ cpc' = IF r.outcome = "threw" THEN "threw" ELSE "running"
         /\ log' = Append(log, LogEntry("prop", r))
         /\ fs' = r.fs
         /\ dirs' = r.dirs

PropCalled(r) == \E crash \in (IF r.ub THEN BOOLEAN ELSE {FALSE}) : PropDone(r, crash)

\* lines 569-575: an entry with the extension .properties goes to prop()
ConvertProp ==
    /\ cpc = "running"
    /\ idx < Len(listing)
    /\ extensionOf(listing[idx + 1].path) = <<".", "p", "r", "o", "p", "e", "r", "t", "i", "e", "s">>
    /\ PropCalled(prop(PackPath, listing[idx + 1], fsbtransparent, fs, dirs))
    /\ idx' = idx + 1
    /\ UNCHANGED <<listing, fsbtransparent, pngVars, filterVars, lineVars>>

\* lines 569-571: any other entry is passed over
ConvertSkip ==
    /\ cpc = "running"
    /\ idx < Len(listing)
    /\ extensionOf(listing[idx + 1].path) # <<".", "p", "r", "o", "p", "e", "r", "t", "i", "e", "s">>
    /\ idx' = idx + 1
    /\ log' = Append(log, [kind |-> "skip", outcome |-> "skipped", ub |-> FALSE, j |-> <<>>,
                            saves |-> <<>>, sliced |-> FALSE, lookup |-> <<>>])
    /\ UNCHANGED <<listing, fs, dirs, cpc, fsbtransparent, pngVars, filterVars, lineVars>>

\* line 577: the loop is over
ConvertReturn ==
    /\ cpc = "running"
    /\ idx = Len(listing)
    /\ cpc' = "done"
    /\ UNCHANGED <<listing, fs, dirs, idx, log, fsbtransparent, pngVars, filterVars, lineVars>>

Next == ConvertProp \/ ConvertSkip \/ ConvertReturn

Spec == Init /\ [][Next]_vars

(***************************************************************************)
(* Properties of the slicer and of the filter.                             *)
(***************************************************************************)
TileW == image.w \div 3
TileH == image.h \div 2

\* channel c of the pixel in column x, row y of a buffer whose rows hold w pixels
PixelByte(pix, w, x, y, c) == pix[((y * w + x) * 4 + c) + 1]

\* pixel n (from 0) of a buffer
PixelAt(pix, n) == <<pix[4 * n + 1], pix[4 * n + 2], pix[4 * n + 3], pix[4 * n + 4]>>

PixelSet(pix) == { PixelAt(pix, n) : n \in 0..((Len(pix) \div 4) - 1) }

\* the pixels of the source tile in tile column tc, tile row tr
TilePixelSet(tc, tr) ==
    { << PixelByte(image.pix, image.w, tc * TileW + x, tr * TileH + y, 0),
         PixelByte(image.pix, image.w, tc * TileW + x, tr * TileH + y, 1),
         PixelByte(image.pix, image.w, tc * TileW + x, tr * TileH + y, 2),
         PixelByte(image.pix, image.w, tc * TileW + x, tr * TileH + y, 3) >> :
        x \in 0..(TileW - 1), y \in 0..(TileH - 1) }

\* face number k of saved is the source tile (tc, tr), pixel for pixel
SameAsTile(k, tc, tr) ==
    /\ saved[k].w = TileW
    /\ saved[k].h = TileH
    /\ Len(saved[k].pix) = TileW * TileH * 4
    /\ \A x \in 0..(TileW - 1), y \in 0..(TileH - 1), c \in 0..3 :
          PixelByte(saved[k].pix, TileW, x, y, c)
            = PixelByte(image.pix, image.w, tc * TileW + x, tr * TileH + y, c)

\* face number k of saved is the source tile (tc, tr) turned 90 degrees clockwise:
\* source (x, y) lies at destination (th - 1 - y, x)
ClockwiseOfTile(k, tc, tr) ==
    /\ saved[k].w = TileH
    /\ saved[k].h = TileW
    /\ Len(saved[k].pix) = TileW * TileH * 4
    /\ \A x \in 0..(TileW - 1), y \in 0..(TileH - 1), c \in 0..3 :
          PixelByte(saved[k].pix, TileH, TileH - 1 - y, x, c)
            = PixelByte(image.pix, image.w, tc * TileW + x, tr * TileH + y, c)

\* face number k of saved is the source tile (tc, tr) turned 90 degrees
\* counter-clockwise: source (x, y) lies at destination (y, tw - 1 - x)
CounterClockwiseOfTile(k, tc, tr) ==
    /\ saved[k].w = TileH
    /\ saved[k].h = TileW
    /\ Len(saved[k].pix) = TileW * TileH * 4
    /\ \A x \in 0..(TileW - 1), y \in 0..(TileH - 1), c \in 0..3 :
          PixelByte(saved[k].pix, TileH, y, TileW - 1 - x, c)
            = PixelByte(image.pix, image.w, tc * TileW + x, tr * TileH + y, c)

IsIndexImage == image.pix = indexPix(image.w, image.h)

\* byte v of an index image lies in the part of the source that is kept
KeptByte(v) ==
    /\ ((v \div 4) % image.w) < 3 * TileW
    /\ ((v \div 4) \div image.w) < 2 * TileH

\* C1: with the transparency flag disabled, png() emits exactly six faces, bottom,
\* top, south from tile row 0 and west, north, east from tile row 1, each of
\* (w/3)*(h/2) pixels; south, west, north and east equal their source tile pixel
\* for pixel; the trailing w mod 3 columns and h mod 2 row appear in no face and no
\* access is out of range.
C1_SixFacesFromTiles ==
    (pngpc # "decoded" /\ ~fsbtransparent) =>
        /\ pngpc = "done"
        /\ Len(saved) = 6
        /\ [k \in 1..6 |-> saved[k].face]
             = <<"bottom", "top", "south", "west", "north", "east">>
        /\ \A k \in 1..6 : Len(saved[k].pix) = TileW * TileH * 4
        /\ PixelSet(saved[1].pix) = TilePixelSet(0, 0)
        /\ PixelSet(saved[2].pix) = TilePixelSet(1, 0)
        /\ SameAsTile(3, 2, 0)
        /\ SameAsTile(4, 0, 1)
        /\ SameAsTile(5, 1, 1)
        /\ SameAsTile(6, 2, 1)
        /\ IsIndexImage =>
              \A k \in 1..6 : \A n \in 1..Len(saved[k].pix) : KeptByte(saved[k].pix[n])

\* an image with a trailing column and a trailing row has been sliced into tiles
\* of more than one pixel
C1_Witness ==
    /\ pngpc = "done" /\ ~fsbtransparent /\ IsIndexImage
    /\ image.w % 3 # 0 /\ image.h % 2 # 0
    /\ TileW >= 2 /\ TileH >= 2
    /\ Len(saved) = 6

\* C2: bottom is tile (0,0) rotated 90 degrees counter-clockwise, top is tile (1,0)
\* rotated 90 degrees clockwise, a rotated face being th wide and tw high, and
\* south, west, north, east are not rotated.
C2_BottomAndTopRotated ==
    (pngpc = "done" /\ ~fsbtransparent) =>
        /\ CounterClockwiseOfTile(1, 0, 0)
        /\ ClockwiseOfTile(2, 1, 0)
        /\ SameAsTile(3, 2, 0)
        /\ SameAsTile(4, 0, 1)
        /\ SameAsTile(5, 1, 1)
        /\ SameAsTile(6, 2, 1)

\* what the filter is to make of a pixel: an opaque pixel gets its value channel
\* (its largest channel) as alpha and its colour scaled to full value
FullValue(p) ==
    LET m == Max2(Max2(p[1], p[2]), p[3])
    IN  IF m = 0 THEN <<255, 255, 255, 0>>
        ELSE <<(p[1] * 255) \div m, (p[2] * 255) \div m, (p[3] * 255) \div m, m>>

TilePixels == 0..(tile.w * tile.h - 1)

\* C8: with the flag disabled the tile is unchanged; with the flag enabled every
\* pixel with alpha below 255 keeps its four channels and every pixel with alpha
\* 255 gets its value channel as alpha and its colour at full value, opaque black
\* becoming (255,255,255,0); a second application leaves every pixel with alpha
\* below 255 as it is.
C8_FilterChangesOnlyOpaque ==
    /\ fpc # "threw"
    /\ (fpc \in {"once", "twice"} /\ ~fsbtransparent) => filtered = tile.pix
    /\ (fpc \in {"once", "twice"} /\ fsbtransparent) =>
          /\ Len(filtered) = Len(tile.pix)
          /\ \A n \in TilePixels :
                LET p == PixelAt(tile.pix, n)
                    q == PixelAt(filtered, n)
                IN  /\ p[4] < 255 => q = p
                    /\ p[4] = 255 => q = FullValue(p)
                    /\ p = <<0, 0, 0, 255>> => q = <<255, 255, 255, 0>>
    /\ fpc = "twice" =>
          /\ Len(filtered2) = Len(filtered)
          /\ \A n \in TilePixels :
                PixelAt(filtered, n)[4] < 255 => PixelAt(filtered2, n) = PixelAt(filtered, n)

\* a tile with an opaque black pixel, an opaque coloured pixel and a pixel that was
\* not opaque has been filtered twice with the flag enabled
C8_Witness ==
    /\ fpc = "twice" /\ fsbtransparent
    /\ \E n \in TilePixels : PixelAt(tile.pix, n) = <<0, 0, 0, 255>>
                             /\ PixelAt(filtered2, n) = <<255, 255, 255, 0>>
    /\ \E n \in TilePixels : PixelAt(tile.pix, n) = <<0, 102, 102, 255>>
                             /\ PixelAt(filtered, n) = <<0, 255, 255, 102>>
    /\ \E n \in TilePixels : PixelAt(tile.pix, n)[4] = 254

(***************************************************************************)
(* Properties of one line: fade times and lists.                           *)
(***************************************************************************)
\* the fade field of the descriptor that option names
FadeField(j, option) ==
    IF option = <<"s", "t", "a", "r", "t", "F", "a", "d", "e", "I", "n">> THEN j.fade.startFadeIn
    ELSE IF option = <<"e", "n", "d", "F", "a", "d", "e", "I", "n">> THEN j.fade.endFadeIn
    ELSE IF option = <<"s", "t", "a", "r", "t", "F", "a", "d", "e", "O", "u", "t">> THEN j.fade.startFadeOut
    ELSE j.fade.endFadeOut

\* raw of a fade value: "\:" replaced by ":", every ":" deleted, "0" appended,
\* parsed as an integer
RawOf(value) == stoi(Append(SelectSeq(findreplace(value), LAMBDA c : c # ":"), "0")).val

\* (raw/1000)*1000 + round((raw mod 1000)/3.0*5), then + 18000 mod 24000, the
\* last mod being the one whose result lies in 0..23999
TickOf(raw) ==
    ((TruncDiv(raw, 1000) * 1000 + roundFiveThirds(TruncMod(raw, 1000))) + 18000) % 24000

\* a line was read, accepted, and nothing undefined was executed
Accepted == lpc = "done" /\ pst.status = "scan" /\ ~pst.ub

\* C4: for every fade value the encoder accepts, the stored tick is
\* ((raw/1000)*1000 + round((raw mod 1000)/3.0*5) + 18000) mod 24000 for the
\* raw integer of the value, it lies in 0..23999, and it is 0 for 6:0:0.
C4_FadeTickInRange ==
    (Accepted /\ line.option \in FadeOptions) =>
        /\ FadeField(pst.j, line.option) = << TickOf(RawOf(line.value)) >>
        /\ FadeField(pst.j, line.option)[1] \in 0..23999
        /\ (line.value = <<"6", ":", "0", ":", "0">> => FadeField(pst.j, line.option) = <<0>>)

\* the list the descriptor holds for option
ListField(j, option) == IF option = <<"w", "e", "a", "t", "h", "e", "r">> THEN j.weather ELSE j.biomes

\* the tokens of s from position i on, white space separating them
RECURSIVE TokensFrom(_, _)
TokensFrom(s, i) ==
    IF skipSpace(s, i) > Len(s) THEN <<>>
    ELSE << SubSeq(s, skipSpace(s, i), wordEnd(s, skipSpace(s, i)) - 1) >>
         \o TokensFrom(s, wordEnd(s, skipSpace(s, i)))

\* C9: for weather and biomes the stored list is exactly the sequence of the
\* white-space separated tokens of the value, none added, repeated or dropped.
C9_ListIsTokens ==
    (Accepted /\ line.option \in ListOptions) =>
        ListField(pst.j, line.option) = << TokensFrom(line.value, 1) >>

(***************************************************************************)
(* Properties of convert() over a directory.                               *)
(***************************************************************************)
\* entry k of the directory has been handled by prop(), which did not end in
\* undefined behaviour
Handled(k) == k \in DOMAIN log /\ log[k].kind = "prop" /\ log[k].outcome # "crashed"

NameOf(k) == filenameOf(listing[k].path)

\* the descriptor file of entry k
DescriptorOf(k) ==
    PackPath \o <<"/", "a", "s", "s", "e", "t", "s", "/", "f", "a", "b", "r", "i", "c", "s", "k", "y", "b", "o", "x", "e", "s", "/", "s", "k", "y", "/">> \o stemOf(listing[k].path) \o <<".", "j", "s", "o", "n">>

\* the file a texture id names: <pack>/assets/fabricskyboxes/sky<p>_<face>.png
\* for the id fabricskyboxes:sky<p>_<face>.png
FileOfId(id) ==
    PackPath \o <<"/", "a", "s", "s", "e", "t", "s", "/", "f", "a", "b", "r", "i", "c", "s", "k", "y", "b", "o", "x", "e", "s", "/", "s", "k", "y">>
             \o SubSeq(id, Len(<<"f", "a", "b", "r", "i", "c", "s", "k", "y", "b", "o", "x", "e", "s", ":", "s", "k", "y">>) + 1, Len(id))

\* the value of the last source line of the file, <<>> when there is none
RECURSIVE SourceValue(_, _)
SourceValue(lines, k) ==
    IF k = 0 THEN <<>>
    ELSE IF trimBack(splitLine(lines[k], 1, FALSE, <<>>, <<>>).option) = <<"s", "o", "u", "r", "c", "e">>
    THEN trimFront(splitLine(lines[k], 1, FALSE, <<>>, <<>>).value)
    ELSE SourceValue(lines, k - 1)

SourceOf(k) == SourceValue(listing[k].lines, Len(listing[k].lines))

IsRelative(v) == Len(v) >= 2 /\ v[1] = "." /\ v[2] = "/"

FaceIds(id) ==
    [face \in {"top", "bottom", "north", "south", "east", "west"} |->
        id \o <<"_">> \o (CASE face = "top" -> <<"t", "o", "p">> [] face = "bottom" -> <<"b", "o", "t", "t", "o", "m">>
                            [] face = "north" -> <<"n", "o", "r", "t", "h">> [] face = "south" -> <<"s", "o", "u", "t", "h">>
                            [] face = "east" -> <<"e", "a", "s", "t">> [] face = "west" -> <<"w", "e", "s", "t">>)
           \o <<".", "p", "n", "g">>]

\* the general statement of C3 with the relative path rel
RelativeResolved(k, rel) ==
    /\ log[k].outcome = "written"
    /\ log[k].lookup = parentOf(listing[k].path) \o rel \o <<".", "p", "n", "g">>
    /\ log[k].j.textures = FaceIds(<<"f", "a", "b", "r", "i", "c", "s", "k", "y", "b", "o", "x", "e", "s", ":", "s", "k", "y">> \o rel)

\* C3 as stated: the lines source=./foo, startFadeIn=6:0:0, blend=add give
\* textures.top = fabricskyboxes:sky/foo_top.png and blend type add; for every
\* source value beginning with "./" the id is fabricskyboxes:sky followed by
\* the value without its leading ".", the image is looked up at
\* <parent-dir><relative-path>.png and the six texture ids are the id
\* suffixed with _<face>.png.
C3_AsStated ==
    \A k \in DOMAIN log :
        /\ (Handled(k) /\ NameOf(k) = <<"e", "x", ".", "p", "r", "o", "p", "e", "r", "t", "i", "e", "s">>) =>
              /\ log[k].outcome = "written"
              /\ log[k].j.textures["top"] = <<"f", "a", "b", "r", "i", "c", "s", "k", "y", "b", "o", "x", "e", "s", ":", "s", "k", "y", "/", "f", "o", "o", "_", "t", "o", "p", ".", "p", "n", "g">>
              /\ log[k].j.blendType = <<"a", "d", "d">>
        /\ (Handled(k) /\ log[k].outcome # "returned" /\ IsRelative(SourceOf(k))) =>
              RelativeResolved(k, Tail(SourceOf(k)))

\* C3, amended: the lines source=./foo.png, startFadeIn=6:0:0, blend=add give
\* textures.top = fabricskyboxes:sky/foo_top.png, blend type add and
\* startFadeIn 0; for every source value of six or more characters beginning
\* with "./", in a file whose lines all parse, the relative path is the value
\* without its leading "." and without its last four characters, the id is
\* fabricskyboxes:sky followed by it, the image is looked up at
\* <parent-dir><relative-path>.png and the six texture ids are the id
\* suffixed with _<face>.png.
C3_RelativeSourceWithExtension ==
    \A k \in DOMAIN log :
        /\ (Handled(k) /\ NameOf(k) = <<"f", "o", "o", ".", "p", "r", "o", "p", "e", "r", "t", "i", "e", "s">>) =>
              /\ log[k].outcome = "written"
              /\ log[k].j.textures["top"] = <<"f", "a", "b", "r", "i", "c", "s", "k", "y", "b", "o", "x", "e", "s", ":", "s", "k", "y", "/", "f", "o", "o", "_", "t", "o", "p", ".", "p", "n", "g">>
              /\ log[k].j.blendType = <<"a", "d", "d">>
              /\ log[k].j.fade.startFadeIn = <<0>>
        /\ (Handled(k) /\ log[k].outcome \notin {"returned", "threw"}
                       /\ IsRelative(SourceOf(k)) /\ Len(SourceOf(k)) >= 6) =>
              RelativeResolved(k, SubSeq(SourceOf(k), 2, Len(SourceOf(k)) - 4))

\* prop() has written the descriptor of foo.properties, and that of a file
\* whose relative source names a folder
C3_Witness ==
    \E k, m \in DOMAIN log :
        /\ Handled(k) /\ NameOf(k) = <<"f", "o", "o", ".", "p", "r", "o", "p", "e", "r", "t", "i", "e", "s">> /\ log[k].outcome = "written"
        /\ Handled(m) /\ NameOf(m) = <<"s", "u", "b", ".", "p", "r", "o", "p", "e", "r", "t", "i", "e", "s">> /\ log[m].outcome = "written"

\* the files of the catalogue that hold something that is no valid number
BadNumberFiles == { <<"b", "a", "d", ".", "p", "r", "o", "p", "e", "r", "t", "i", "e", "s">>, <<"b", "i", "g", ".", "p", "r", "o", "p", "e", "r", "t", "i", "e", "s">>, <<"l", "a", "x", ".", "p", "r", "o", "p", "e", "r", "t", "i", "e", "s">> }

\* the files of the catalogue whose content is valid
ValidFiles == { <<"f", "o", "o", ".", "p", "r", "o", "p", "e", "r", "t", "i", "e", "s">>, <<"s", "u", "b", ".", "p", "r", "o", "p", "e", "r", "t", "i", "e", "s">>, <<"a", "b", "s", ".", "p", "r", "o", "p", "e", "r", "t", "i", "e", "s">> }

\* convert() is over, or an exception has left it
BatchOver == cpc \in {"done", "threw"}

\* C5: a file with a value that is no valid number where one is expected is
\* aborted, with no descriptor and no face image written for it, and every
\* valid file of the batch, before or after it, gets its descriptor.
C5_BadNumberAbortsOnlyThatFile ==
    /\ \A k \in DOMAIN log :
          (Handled(k) /\ NameOf(k) \in BadNumberFiles) =>
              /\ log[k].outcome = "returned"
              /\ ~fileExists(fs, DescriptorOf(k))
              /\ log[k].saves = <<>>
    /\ (BatchOver /\ \E k \in DOMAIN log : Handled(k) /\ NameOf(k) \in BadNumberFiles) =>
          \A m \in DOMAIN listing :
              NameOf(m) \in ValidFiles => fileExists(fs, DescriptorOf(m))

\* the source of entry k, were it the stem of the file, has no "/" and no "./"
NoFolderInSource(k) ==
    /\ SourceOf(k) = <<>>
    /\ \A i \in DOMAIN stemOf(listing[k].path) : stemOf(listing[k].path)[i] # "/"

\* C6: when a file fails because its source holds no "/", only that file is
\* aborted: convert() goes on, and every valid file that follows ends with its
\* descriptor written.
C6_MalformedSourceAbortsOnlyThatFile ==
    \A k \in DOMAIN log :
        (Handled(k) /\ NoFolderInSource(k)) =>
            /\ log[k].outcome = "threw"
            /\ cpc \in {"running", "done", "crashed"}
            /\ cpc = "done" =>
                  \A m \in (k + 1)..Len(listing) :
                      NameOf(m) \in ValidFiles => fileExists(fs, DescriptorOf(m))

\* prop() looked for the image of entry k and did not find it
ImageMissing(k) ==
    Handled(k) /\ log[k].lookup # <<>> /\ ~fileExists(fs, log[k].lookup)

\* C7: when the image does not exist, in both branches, prop() raises no
\* error, does not call the slicer, writes exactly six 1x1 placeholder images,
\* one for each face, and writes a descriptor with all six textures.
C7_MissingImageGivesPlaceholders ==
    \A k \in DOMAIN log :
        ImageMissing(k) =>
            /\ log[k].outcome = "written"
            /\ ~log[k].sliced
            /\ Len(log[k].saves) = 6
            /\ \A s \in DOMAIN log[k].saves :
                  log[k].saves[s].ok /\ log[k].saves[s].content = Placeholder
            /\ { log[k].saves[s].path : s \in DOMAIN log[k].saves }
                  = { FileOfId(log[k].j.textures[face]) : face \in DOMAIN log[k].j.textures }
            /\ Cardinality(DOMAIN log[k].j.textures) = 6
            /\ fileExists(fs, DescriptorOf(k))

\* C10: for every file whose conversion completes, each of the six texture
\* ids of the descriptor names a file that was written: the id
\* fabricskyboxes:sky<p>_<face>.png goes with the image
\* <pack>/assets/fabricskyboxes/sky<p>_<face>.png.
C10_TextureIdsNameWrittenFiles ==
    \A k \in DOMAIN log :
        (Handled(k) /\ log[k].outcome = "written") =>
            \A face \in DOMAIN log[k].j.textures :
                fileExists(fs, FileOfId(log[k].j.textures[face]))

=============================================================================
